---- MODULE Spec2Model ----
(***************************************************************************)
(* A model of forex-analysis.js: the indicator library, the structure      *)
(* detectors, the composite scorer and the batch driver main().            *)
(*                                                                         *)
(* Numbers.  Every JavaScript number is an IEEE-754 binary floating-point  *)
(* value and every arithmetic operator rounds its exact result to the      *)
(* nearest representable value, ties to even.  The model keeps exactly     *)
(* that semantics with a significand of Prec bits (JavaScript: 53) and an  *)
(* unbounded exponent: a finite value is m * 2^e with m = 0 or             *)
(* 2^(Prec-1) <= |m| < 2^Prec, so equal values are equal records.  NaN and *)
(* the two infinities are kept; the sign of zero is not.                   *)
(***************************************************************************)
EXTENDS Integers, Sequences, FiniteSets, TLC

Prec == 13

IAbs(n) == IF n < 0 THEN -n ELSE n

ISgn(n) == IF n < 0 THEN -1 ELSE IF n > 0 THEN 1 ELSE 0

NaN == [cls |-> "nan", m |-> 0, e |-> 0]

PInf == [cls |-> "inf", m |-> 1, e |-> 0]

NInf == [cls |-> "inf", m |-> -1, e |-> 0]

Fin(mm, ee) == [cls |-> "fin", m |-> mm, e |-> ee]

Zero == Fin(0, 0)

IsNaN(x) == x.cls = "nan"

IsFin(x) == x.cls = "fin"

\* number of binary digits of a positive integer
RECURSIVE BitLen(_)
BitLen(n) == IF n < 2 THEN 1 ELSE IF n < 256 THEN 1 + BitLen(n \div 2) ELSE 8 + BitLen(n \div 256)

\* the quotient q of a division that left remainder r, moved to the nearest integer,
\* to the even one on a tie
Nearest(q, r, half) == IF r > half \/ (r = half /\ q % 2 = 1) THEN q + 1 ELSE q

\* a significand that rounding carried up to 2^Prec takes one more step of exponent
Carried(s, q, ee) == IF q = 2^Prec THEN Fin(s * 2^(Prec - 1), ee + 1) ELSE Fin(s * q, ee)

\* s * a * 2^ee, a > 0 of b binary digits, rounded to Prec significant bits
Fitted(s, a, b, ee) ==
  IF b <= Prec
  THEN Fin(s * a * 2^(Prec - b), ee - (Prec - b))
  ELSE Carried(s, Nearest(a \div 2^(b - Prec), a % 2^(b - Prec), 2^(b - Prec - 1)),
               ee + (b - Prec))

\* the value n * 2^ee rounded to Prec significant bits, nearest, ties to even
RoundFl(n, ee) == IF n = 0 THEN Zero ELSE Fitted(ISgn(n), IAbs(n), BitLen(IAbs(n)), ee)

\* an integer literal, and a decimal literal n/d (0.5 is FDec(5, 10))
FInt(n) == RoundFl(n, 0)

FNeg(x) == IF IsNaN(x) THEN NaN ELSE [x EXCEPT !.m = -x.m]

FAbs(x) == IF IsNaN(x) THEN NaN ELSE [x EXCEPT !.m = IAbs(x.m)]

\* hi + lo for two finite values that are not zero, hi.e >= lo.e: when lo is too small
\* to reach the rounding bit of hi the sum is hi
AddAligned(hi, lo) ==
  IF hi.e - lo.e > Prec + 1 THEN hi ELSE RoundFl(hi.m * 2^(hi.e - lo.e) + lo.m, lo.e)

\* x + y
FAdd(x, y) ==
  IF IsNaN(x) \/ IsNaN(y) THEN NaN
  ELSE IF ~IsFin(x) THEN (IF ~IsFin(y) /\ y.m # x.m THEN NaN ELSE x)
  ELSE IF ~IsFin(y) THEN y
  ELSE IF x.m = 0 THEN y
  ELSE IF y.m = 0 THEN x
  ELSE IF x.e >= y.e THEN AddAligned(x, y) ELSE AddAligned(y, x)

\* x - y
FSub(x, y) == FAdd(x, FNeg(y))

\* x * y
FMul(x, y) ==
  IF IsNaN(x) \/ IsNaN(y) THEN NaN
  ELSE IF ~IsFin(x) \/ ~IsFin(y)
       THEN (IF x.m = 0 \/ y.m = 0 THEN NaN
             ELSE IF ISgn(x.m) = ISgn(y.m) THEN PInf ELSE NInf)
  ELSE RoundFl(x.m * y.m, x.e + y.e)

\* twice the integer quotient of num by den, made odd when the division is not exact:
\* it rounds as the exact quotient does
Quotient(num, den) == 2 * (num \div den) + (IF num % den = 0 THEN 0 ELSE 1)

\* x / y
FDiv(x, y) ==
  IF IsNaN(x) \/ IsNaN(y) THEN NaN
  ELSE IF ~IsFin(x) THEN (IF ~IsFin(y) THEN NaN
                          ELSE IF ISgn(x.m) * ISgn(y.m) < 0 THEN NInf ELSE PInf)
  ELSE IF ~IsFin(y) THEN Zero
  ELSE IF y.m = 0 THEN (IF x.m = 0 THEN NaN ELSE IF x.m > 0 THEN PInf ELSE NInf)
  ELSE IF x.m = 0 THEN Zero
  ELSE RoundFl(ISgn(x.m) * ISgn(y.m) * Quotient(IAbs(x.m) * 2^(Prec + 2), IAbs(y.m)),
               x.e - y.e - (Prec + 2) - 1)

FDec(n, d) == FDiv(FInt(n), FInt(d))

\* -1, 0, 1 as x is below, equal to, above y (neither is NaN)
FCmp(x, y) ==
  IF x = y THEN 0
  ELSE IF ~IsFin(x) THEN x.m
  ELSE IF ~IsFin(y) THEN -y.m
  ELSE IF ISgn(x.m) # ISgn(y.m) THEN (IF x.m < y.m THEN -1 ELSE 1)
  ELSE IF x.e # y.e THEN (IF x.e < y.e THEN -ISgn(x.m) ELSE ISgn(x.m))
  ELSE IF x.m < y.m THEN -1 ELSE 1

\* the comparison operators: all false on NaN
FLt(x, y) == ~IsNaN(x) /\ ~IsNaN(y) /\ FCmp(x, y) < 0

FGt(x, y) == FLt(y, x)

FLe(x, y) == ~IsNaN(x) /\ ~IsNaN(y) /\ FCmp(x, y) <= 0

FGe(x, y) == FLe(y, x)

\* x === y
FEq(x, y) == ~IsNaN(x) /\ ~IsNaN(y) /\ x = y

\* Math.max(x, y)
FMax(x, y) == IF IsNaN(x) \/ IsNaN(y) THEN NaN ELSE IF FLt(x, y) THEN y ELSE x

\* Math.min(x, y)
FMin(x, y) == IF IsNaN(x) \/ IsNaN(y) THEN NaN ELSE IF FLt(y, x) THEN y ELSE x

\* null and undefined, where a field holds them in place of a number
Null == [cls |-> "null", m |-> 0, e |-> 0]

Undefined == [cls |-> "undefined", m |-> 0, e |-> 0]

\* the number a comparison makes of what it is given: undefined becomes NaN
Num(x) == IF x.cls = "undefined" THEN NaN ELSE x

\* the integer nearest to num / 2^sh, the larger one on a tie; 0 when 2^sh dwarfs num
Scaled(num, sh) == IF sh >= 24 THEN 0 ELSE (2 * num + 2^sh) \div (2 * 2^sh)

\* x.toFixed(d), as the integer that the digits printed spell, the point left out: the
\* integer n with n / 10^d nearest to x, the larger one on a tie
ToFixed(x, d) ==
  IF ~IsFin(x) THEN [special |-> x.cls, digits |-> ISgn(x.m), decimals |-> d]
  ELSE [special  |-> "none",
        digits   |-> ISgn(x.m) * (IF x.e >= 0 THEN IAbs(x.m) * 10^d * 2^x.e
                                  ELSE Scaled(IAbs(x.m) * 10^d, -x.e)),
        decimals |-> d]

(***************************************************************************)
(* Arrays are sequences; JavaScript index i is index i + 1 here.  A value  *)
(* that the code names and reads more than once is a parameter of the      *)
(* operator that reads it.                                                 *)
(***************************************************************************)

\* data.slice(from, to) for 0 <= from: the elements at JavaScript indices from .. to-1
Slice(s, from, to) ==
  IF to > Len(s) THEN SubSeq(s, from + 1, Len(s)) ELSE SubSeq(s, from + 1, to)

\* s.reduce((a, b) => a + b, 0): a left fold, so the roundings come in this order;
\* a sum that has become NaN stays NaN whatever is added
RECURSIVE ReduceAdd(_, _, _)
ReduceAdd(acc, s, i) ==
  IF IsNaN(acc) \/ i > Len(s) THEN acc ELSE ReduceAdd(FAdd(acc, s[i]), s, i + 1)

Sum(s) == ReduceAdd(Zero, s, 1)

\* candles.map(c => c.close)
Closes(cs) == [i \in 1..Len(cs) |-> cs[i].close]

\* data.slice(-n), n > 0
LastN(s, n) == IF Len(s) <= n THEN s ELSE SubSeq(s, Len(s) - n + 1, Len(s))

\* arr[i] for a JavaScript index i: undefined when there is no such element
At(s, i) == IF i < 0 \/ i >= Len(s) THEN Undefined ELSE s[i + 1]

\* arr[arr.length - 1 - back]
FromEnd(s, back) == At(s, Len(s) - 1 - back)

\* Math.abs(c.close - c.open)
Body(c) == FAbs(FSub(c.close, c.open))

\* values.slice(i - period + 1, i + 1).reduce((a, b) => a + b, 0) / period
Average(values, period, i) == FDiv(Sum(Slice(values, i - period + 1, i + 1)), FInt(period))

\* the loop "for (i = period - 1; i < data.length; i++) result.push(sum / period)"
RECURSIVE SMALoop(_, _, _, _)
SMALoop(result, data, period, i) ==
  IF i < Len(data)
  THEN SMALoop(Append(result, Average(data, period, i)), data, period, i + 1)
  ELSE result

\* a plausible slip: the loop starts one window late
calculateSMA_lateStart(data, period) == SMALoop(<<>>, data, period, period)

calculateSMA(data, period) == SMALoop(<<>>, data, period, period - 1)

\* the loop "for (i = period; i < data.length; i++) ema.push(...)"; ema holds its seed
\* from the start, so ema[ema.length - 1] is always an element of it
RECURSIVE EMALoop(_, _, _, _)
EMALoop(ema, data, k, i) ==
  IF Len(ema) > 0 /\ i < Len(data)
  THEN EMALoop(Append(ema,
                      FAdd(FMul(data[i + 1], k),
                           FMul(ema[Len(ema)], FSub(FInt(1), k)))),
               data, k, i + 1)
  ELSE ema

calculateEMA(data, period) ==
  IF Len(data) < period THEN <<>>
  ELSE EMALoop(<<Average(data, period, period - 1)>>, data,
               FDiv(FInt(2), FAdd(FInt(period), FInt(1))), period)

\* changes[i - 1] = candles[i].close - candles[i - 1].close
Changes(cs) == [i \in 1..(Len(cs) - 1) |-> FSub(cs[i + 1].close, cs[i].close)]

IsPositive(c) == FGt(c, Zero)

IsNegative(c) == FLt(c, Zero)

\* a plausible slip: no guard on losses === 0, the division is always made
RS_noGuard(gains, losses) == FDiv(gains, losses)

\* rs = losses === 0 ? 100 : gains / losses
RS(gains, losses) == IF FEq(losses, Zero) THEN FInt(100) ELSE FDiv(gains, losses)

\* one value of the RSI series, from one window of changes
RSIValue(slice, period) ==
  FSub(FInt(100),
       FDiv(FInt(100),
            FAdd(FInt(1),
                 RS(FDiv(Sum(SelectSeq(slice, IsPositive)), FInt(period)),
                    FDiv(FAbs(Sum(SelectSeq(slice, IsNegative))), FInt(period))))))

\* the loop "for (i = period; i <= changes.length; i++)"
RSIValues(changes, period) ==
  [w \in 1..(Len(changes) - period + 1) |->
     RSIValue(Slice(changes, w - 1, w - 1 + period), period)]

calculateRSI(cs, period) ==
  IF Len(cs) < period + 1 THEN <<>> ELSE RSIValues(Changes(cs), period)

\* a plausible slip: the offset of the alignment is dropped
Histogram_noOffset(macdLine, signalLine, offset) ==
  [i \in 1..Len(signalLine) |-> FSub(macdLine[i], signalLine[i])]

\* histogram.push(macdLine[i + offset] - signalLine[i]) for i = 0 .. signal.length - 1
Histogram(macdLine, signalLine, offset) ==
  [i \in 1..Len(signalLine) |-> FSub(macdLine[i + offset], signalLine[i])]

\* macdLine.push(ema12[i] - ema26[i - startIndex]) for i = startIndex .. ema12.length - 1
MacdLine(ema12, ema26, startIndex) ==
  [i \in 1..(Len(ema12) - startIndex) |-> FSub(ema12[i + startIndex], ema26[i])]

\* the object returned, from the two lines
MACDLines(macdLine, signalLine) ==
  [macd      |-> macdLine,
   signal    |-> signalLine,
   histogram |-> Histogram(macdLine, signalLine, Len(macdLine) - Len(signalLine))]

\* calculateMACD once ema12 and ema26 are there
MACDOf(ema12, ema26) ==
  IF Len(ema12) = 0 \/ Len(ema26) = 0
  THEN [macd |-> <<>>, signal |-> <<>>, histogram |-> <<>>]
  ELSE MACDLines(MacdLine(ema12, ema26, 26 - 12),
                 calculateEMA(MacdLine(ema12, ema26, 26 - 12), 9))

calculateMACD(cs) == MACDOf(calculateEMA(Closes(cs), 12), calculateEMA(Closes(cs), 26))

\* Math.max(high - low, |high - prevClose|, |low - prevClose|) for candles[i], i >= 1
TrueRange(cs, i) ==
  FMax(FMax(FSub(cs[i + 1].high, cs[i + 1].low),
            FAbs(FSub(cs[i + 1].high, cs[i].close))),
       FAbs(FSub(cs[i + 1].low, cs[i].close)))

TrueRanges(cs) == [i \in 1..(Len(cs) - 1) |-> TrueRange(cs, i)]

\* value || fallback, for a number: 0 and NaN are falsy
OrElse(x, fallback) == IF IsNaN(x) \/ x = Zero THEN fallback ELSE x

\* the loop "for (i = period - 1; i < tr.length; i++) atrValues.push(...)"
ATRValues(tr, period) ==
  [w \in 1..(Len(tr) - period + 1) |-> Average(tr, period, w + period - 2)]

\* the object returned, from atrValues
ATROf(atrValues) ==
  [current |-> IF Len(atrValues) = 0 THEN Zero ELSE OrElse(atrValues[Len(atrValues)], Zero),
   values  |-> atrValues]

calculateATR(cs, period) ==
  IF Len(cs) < period + 1 THEN [current |-> Zero, values |-> <<>>]
  ELSE ATROf(ATRValues(TrueRanges(cs), period))

\* high > low && high > 0 ? high : 0, and the same for low
Directional(move, other) == IF FGt(move, other) /\ FGt(move, Zero) THEN move ELSE Zero

\* plusDM.push(...) for candles[i], i >= 1: high is the rise of the high, low the fall
\* of the low
PlusDM(cs, i) ==
  Directional(FSub(cs[i + 1].high, cs[i].high), FSub(cs[i].low, cs[i + 1].low))

MinusDM(cs, i) ==
  Directional(FSub(cs[i].low, cs[i + 1].low), FSub(cs[i + 1].high, cs[i].high))

\* (avgDM / avgTR) * 100
DI(avgDM, avgTR) == FMul(FDiv(avgDM, avgTR), FInt(100))

\* the entry pushed, from plusDI and minusDI
ADXEntry(plusDI, minusDI) ==
  [adx     |-> FMul(FDiv(FAbs(FSub(plusDI, minusDI)), FAdd(plusDI, minusDI)), FInt(100)),
   plusDI  |-> plusDI,
   minusDI |-> minusDI]

\* the entry pushed, from the three averages of a window
ADXOfAverages(avgTR, avgPlusDM, avgMinusDM) ==
  ADXEntry(DI(avgPlusDM, avgTR), DI(avgMinusDM, avgTR))

\* one entry of adxValues, from the windows ending at JavaScript index i
ADXValue(tr, plusDM, minusDM, period, i) ==
  ADXOfAverages(Average(tr, period, i), Average(plusDM, period, i),
                Average(minusDM, period, i))

\* the loop "for (i = period - 1; i < tr.length; i++) adxValues.push(...)"
ADXValues(tr, plusDM, minusDM, period) ==
  [w \in 1..(Len(tr) - period + 1) |-> ADXValue(tr, plusDM, minusDM, period, w + period - 2)]

\* { ...current, values: adxValues }
ADXOf(current, adxValues) ==
  [adx |-> current.adx, plusDI |-> current.plusDI, minusDI |-> current.minusDI,
   values |-> adxValues]

\* adxValues[adxValues.length - 1] || { adx: 0, plusDI: 0, minusDI: 0 }
CurrentADX(adxValues) ==
  IF Len(adxValues) = 0 THEN [adx |-> Zero, plusDI |-> Zero, minusDI |-> Zero]
  ELSE adxValues[Len(adxValues)]

\* calculateADX once the three arrays are there
ADXOver(adxValues) == ADXOf(CurrentADX(adxValues), adxValues)

calculateADX(cs, period) ==
  IF Len(cs) < period + 1
  THEN [adx |-> Zero, plusDI |-> Zero, minusDI |-> Zero, values |-> <<>>]
  ELSE ADXOver(ADXValues(TrueRanges(cs),
                         [i \in 1..(Len(cs) - 1) |-> PlusDM(cs, i)],
                         [i \in 1..(Len(cs) - 1) |-> MinusDM(cs, i)],
                         period))

(***************************************************************************)
(* Structure: swing points and the trend they make.                        *)
(***************************************************************************)

\* a plausible slip: a tie no longer disqualifies
TopsOut_tiesPass(neighbour, centre) == FGt(neighbour.high, centre.high)

\* the test that disqualifies candles[i] as a swing high: neighbour.high >= centre.high
TopsOut(neighbour, centre) == FGe(neighbour.high, centre.high)

\* the same for a swing low: neighbour.low <= centre.low
BottomsOut(neighbour, centre) == FLe(neighbour.low, centre.low)

\* the inner loop "for (j = 1; j <= lookback; j++)" on the flag isHigh
RECURSIVE IsHighLoop(_, _, _, _, _)
IsHighLoop(isHigh, cs, i, lookback, j) ==
  IF j <= lookback
  THEN IsHighLoop(IF TopsOut(cs[i - j + 1], cs[i + 1]) \/ TopsOut(cs[i + j + 1], cs[i + 1])
                  THEN FALSE ELSE isHigh,
                  cs, i, lookback, j + 1)
  ELSE isHigh

RECURSIVE IsLowLoop(_, _, _, _, _)
IsLowLoop(isLow, cs, i, lookback, j) ==
  IF j <= lookback
  THEN IsLowLoop(IF BottomsOut(cs[i - j + 1], cs[i + 1])
                      \/ BottomsOut(cs[i + j + 1], cs[i + 1])
                 THEN FALSE ELSE isLow,
                 cs, i, lookback, j + 1)
  ELSE isLow

\* a swing point; index is the JavaScript index; the time stamp it copies is left out
Swing(t, i, p) == [type |-> t, index |-> i, price |-> p]

\* what pass i of the outer loop may push: a high (k odd) and then a low (k even)
SwingPush(cs, i, k) ==
  IF k % 2 = 1 THEN Swing("high", i, cs[i + 1].high) ELSE Swing("low", i, cs[i + 1].low)

\* the outer loop "for (i = lookback; i < candles.length - lookback; i++)": the array
\* returned is the pushes, in the order of the passes, for which the test of the inner
\* loop held
identifySwingPoints(cs, lookback) ==
  SelectSeq([k \in 1..(2 * (Len(cs) - 2 * lookback)) |->
               SwingPush(cs, lookback + ((k - 1) \div 2), k)],
            LAMBDA w : IF w.type = "high" THEN IsHighLoop(TRUE, cs, w.index, lookback, 1)
                       ELSE IsLowLoop(TRUE, cs, w.index, lookback, 1))

\* the number of i >= 1 with list[i].price > list[i - 1].price
Rises(list) == Cardinality({i \in 2..Len(list) : FGt(list[i].price, list[i - 1].price)})

\* the object returned, from the four counts
TrendOf(highs, lows, higherHighs, lowerHighs, higherLows, lowerLows) ==
  [structure   |-> IF higherHighs > lowerHighs /\ higherLows > lowerLows THEN "uptrend"
                   ELSE IF lowerHighs > higherHighs /\ lowerLows > higherLows
                        THEN "downtrend"
                   ELSE "ranging",
   higherHighs |-> higherHighs,
   lowerHighs  |-> lowerHighs,
   higherLows  |-> higherLows,
   lowerLows   |-> lowerLows,
   recentHigh  |-> IF Len(highs) > 0 THEN highs[Len(highs)].price ELSE Null,
   recentLow   |-> IF Len(lows) > 0 THEN lows[Len(lows)].price ELSE Null]

\* the number of i >= 1 that take the else branch: no rise, a tie included
Others(list) == Cardinality({i \in 2..Len(list) : ~FGt(list[i].price, list[i - 1].price)})

\* the two counting loops
TrendCounts(highs, lows) ==
  TrendOf(highs, lows, Rises(highs), Others(highs), Rises(lows), Others(lows))

identifyTrendStructure(cs, swings) ==
  TrendCounts(SelectSeq(LastN(swings, 10), LAMBDA w : w.type = "high"),
              SelectSeq(LastN(swings, 10), LAMBDA w : w.type = "low"))

(***************************************************************************)
(* Support and resistance: the clustering of swing prices.                 *)
(***************************************************************************)

\* a plausible slip: the cluster array kept from one call to the next
NewClusters_kept(previous) == previous

\* const clusters = []: every call starts from an empty array
NewClusters(previous) == <<>>

\* the least of a set of indices, 0 when there is none
FirstOf(hits) == IF hits = {} THEN 0 ELSE CHOOSE k \in hits : \A h \in hits : k <= h

\* the inner loop: the first cluster whose price is within the tolerance of p, 0 if none
FindCluster(clusters, p, tolerance) ==
  FirstOf({k \in 1..Len(clusters) : FLt(FAbs(FSub(p, clusters[k].price)), tolerance)})

\* cluster.touches++; cluster.price = (cluster.price * (touches - 1) + p) / touches
Touch(cluster, p) ==
  [price   |-> FDiv(FAdd(FMul(cluster.price, FInt(cluster.touches)), p),
                    FInt(cluster.touches + 1)),
   touches |-> cluster.touches + 1]

\* one pass of the loop: p joins cluster k, or starts a cluster when k = 0
Clustered(clusters, p, k) ==
  IF k = 0 THEN Append(clusters, [price |-> p, touches |-> 1])
  ELSE [clusters EXCEPT ![k] = Touch(@, p)]

\* the loop over allPrices
RECURSIVE ClusterLoop(_, _, _, _)
ClusterLoop(clusters, allPrices, tolerance, i) ==
  IF i < Len(allPrices)
  THEN ClusterLoop(Clustered(clusters, allPrices[i + 1],
                             FindCluster(clusters, allPrices[i + 1], tolerance)),
                   allPrices, tolerance, i + 1)
  ELSE clusters

\* the clusters array when the first loop ends, started from the array given
ClustersOf(initial, swings, atr) ==
  ClusterLoop(initial, [i \in 1..Len(swings) |-> swings[i].price],
              FMul(atr, FDec(5, 10)), 0)

\* the level pushed for a cluster, at the distance given
LevelAt(cluster, currentPrice, atr, distance) ==
  [type        |-> IF FGt(cluster.price, currentPrice) THEN "resistance" ELSE "support",
   price       |-> cluster.price,
   strength    |-> cluster.touches,
   distance    |-> distance,
   distanceATR |-> FDiv(distance, atr)]

\* the level pushed for a cluster with two touches or more
Level(cluster, currentPrice, atr) ==
  LevelAt(cluster, currentPrice, atr, FAbs(FSub(currentPrice, cluster.price)))

\* sorted with level put after its first k elements
InsertAt(sorted, level, k) ==
  SubSeq(sorted, 1, k) \o <<level>> \o SubSeq(sorted, k + 1, Len(sorted))

\* levels.sort((a, b) => a.distance - b.distance): the sort is stable, so for
\* distances that are numbers the outcome is that of inserting the levels one by one,
\* each after those that are not farther
RECURSIVE SortByDistance(_, _, _)
SortByDistance(sorted, levels, i) ==
  IF i > Len(levels) THEN sorted
  ELSE SortByDistance(
         InsertAt(sorted, levels[i],
                  Cardinality({j \in 1..Len(sorted) :
                                 FLe(sorted[j].distance, levels[i].distance)})),
         levels, i + 1)

\* a plausible slip: the levels sliced as they were pushed, without the sort
NearestFive_unsorted(strong, currentPrice, atr) ==
  Slice([i \in 1..Len(strong) |-> Level(strong[i], currentPrice, atr)], 0, 5)

\* the levels of the clusters that passed the filter, sorted, and slice(0, 5)
NearestFive(strong, currentPrice, atr) ==
  Slice(SortByDistance(<<>>, [i \in 1..Len(strong) |-> Level(strong[i], currentPrice, atr)],
                       1),
        0, 5)

\* the second loop, the sort and the slice
LevelsOf(clusters, currentPrice, atr) ==
  NearestFive(SelectSeq(clusters, LAMBDA c : c.touches >= 2), currentPrice, atr)

identifySupportResistance(swings, currentPrice, atr) ==
  LevelsOf(ClustersOf(NewClusters(<<>>), swings, atr), currentPrice, atr)

(***************************************************************************)
(* The leading indicators.                                                 *)
(***************************************************************************)

\* last5.some(...): a candle of the last five reaches within 0.3 of its range of the level
Testing(nearest, last5) ==
  \E i \in 1..Len(last5) :
    \/ /\ nearest.type = "support"
       /\ FLe(last5[i].low,
              FAdd(nearest.price, FMul(FSub(last5[i].high, last5[i].low), FDec(3, 10))))
    \/ /\ nearest.type = "resistance"
       /\ FGe(last5[i].high,
              FSub(nearest.price, FMul(FSub(last5[i].high, last5[i].low), FDec(3, 10))))

\* the object returned when there is a nearest level
NearLevel(nearest, last5, distance, distanceATR, atLevel) ==
  [nearLevel   |-> FLt(distanceATR, FDec(5, 10)),
   atLevel     |-> atLevel,
   distance    |-> distance,
   distanceATR |-> distanceATR,
   strength    |-> nearest.strength,
   type        |-> nearest.type,
   price       |-> nearest.price,
   testing     |-> Testing(nearest, last5),
   signal      |-> IF atLevel /\ nearest.type = "support" THEN "potential_bounce"
                   ELSE IF atLevel /\ nearest.type = "resistance" THEN "potential_rejection"
                   ELSE "none"]

\* a plausible slip: the level counts as reached from farther away than as approached
Approached_reachedFromAfar(nearest, last5, distance, distanceATR) ==
  NearLevel(nearest, last5, distance, distanceATR, FLt(distanceATR, FDec(20, 10)))

\* the level at distance |currentPrice - nearest.price|, that distance in ATRs
Approached(nearest, last5, distance, distanceATR) ==
  NearLevel(nearest, last5, distance, distanceATR, FLt(distanceATR, FDec(2, 10)))

\* analyzeLevelStrength after its call of identifySupportResistance, which returned
\* levels.  Without a level the object has no atLevel and no signal: they read as
\* undefined, which is false in a condition and equal to no signal name.
LevelStrengthOf(levels, cs, currentPrice, atr) ==
  IF Len(levels) = 0
  THEN [nearLevel |-> FALSE, atLevel |-> FALSE, distance |-> Null,
        distanceATR |-> Undefined, strength |-> 0, type |-> "null",
        price |-> Undefined, testing |-> FALSE, signal |-> "undefined"]
  ELSE Approached(levels[1], LastN(cs, 5),
                  FAbs(FSub(currentPrice, levels[1].price)),
                  FDiv(FAbs(FSub(currentPrice, levels[1].price)), atr))

analyzeLevelStrength(cs, swings, currentPrice, atr) ==
  LevelStrengthOf(identifySupportResistance(swings, currentPrice, atr), cs, currentPrice, atr)

\* bodySize / range > 0.6
IsStrong(c) == FGt(FDiv(Body(c), FSub(c.high, c.low)), FDec(6, 10))

\* the sum of the bodies of the candles chosen, added in the order of the series
BodySum(chosen) == Sum([i \in 1..Len(chosen) |-> Body(chosen[i])])

\* recent.forEach: buyingPressure is the left fold of the bodies of the strong bullish
\* candles, sellingPressure that of the strong bearish ones
BuyingPressure(recent) ==
  BodySum(SelectSeq(recent, LAMBDA c : FGt(c.close, c.open) /\ IsStrong(c)))

SellingPressure(recent) ==
  BodySum(SelectSeq(recent, LAMBDA c : ~(FGt(c.close, c.open) /\ IsStrong(c))
                                       /\ FLt(c.close, c.open) /\ IsStrong(c)))

\* totalPressure > 0 ? netPressure / totalPressure : 0
PressureRatio(netPressure, totalPressure) ==
  IF FGt(totalPressure, Zero) THEN FDiv(netPressure, totalPressure) ELSE Zero

\* the object returned, from the two pressures and their ratio
OrderFlowOf(buying, selling, pressureRatio) ==
  [buying   |-> buying,
   selling  |-> selling,
   net      |-> FSub(buying, selling),
   bias     |-> IF FGt(pressureRatio, FDec(3, 10)) THEN "bullish"
                ELSE IF FLt(pressureRatio, FNeg(FDec(3, 10))) THEN "bearish"
                ELSE "neutral",
   strength |-> FAbs(pressureRatio),
   signal   |-> IF FGt(pressureRatio, FDec(5, 10)) THEN "strong_buy"
                ELSE IF FLt(pressureRatio, FNeg(FDec(5, 10))) THEN "strong_sell"
                ELSE "neutral"]

OrderFlowBetween(buying, selling) ==
  OrderFlowOf(buying, selling, PressureRatio(FSub(buying, selling), FAdd(buying, selling)))

analyzeOrderFlow(cs, lookback) ==
  OrderFlowBetween(BuyingPressure(LastN(cs, lookback)), SellingPressure(LastN(cs, lookback)))

\* the number of i >= 1 with v[i] > v[i - 1], and with v[i] < v[i - 1]
RisingSteps(v) == Cardinality({i \in 2..Len(v) : FGt(v[i], v[i - 1])})

FallingSteps(v) == Cardinality({i \in 2..Len(v) : FLt(v[i], v[i - 1])})

\* the object returned, from the values the function computes before; bullish and
\* bearish are bullishDivergence and bearishDivergence
MomentumShiftOf(bodyAcceleration, priceChange5, priceChange10, rsiLast, bullish, bearish) ==
  [acceleration      |-> bodyAcceleration,
   accelerating      |-> FGt(bodyAcceleration, FDec(12, 10)),
   decelerating      |-> FLt(bodyAcceleration, FDec(8, 10)),
   momentum5Candles  |-> IF FGt(priceChange5, Zero) THEN "bullish" ELSE "bearish",
   momentum10Candles |-> IF FGt(priceChange10, Zero) THEN "bullish" ELSE "bearish",
   rsiMomentum       |-> IF RisingSteps(rsiLast) >= 3 THEN "rising"
                         ELSE IF FallingSteps(rsiLast) >= 3 THEN "falling" ELSE "flat",
   divergence        |-> IF bullish THEN "bullish" ELSE IF bearish THEN "bearish" ELSE "none",
   earlySignal       |-> bullish \/ bearish]

\* detectMomentumShift on its three windows, for a series that is not empty
MomentumShiftIn(last10, last5, rsiLast) ==
  MomentumShiftOf(
    FDiv(FDiv(BodySum(last5), FInt(5)), FDiv(BodySum(last10), FInt(10))),
    FSub(last5[Len(last5)].close, last5[1].close),
    FSub(last10[Len(last10)].close, last10[1].close),
    rsiLast,
    FLt(last5[Len(last5)].low, last5[1].low)
      /\ FGt(Num(FromEnd(rsiLast, 0)), Num(At(rsiLast, 0))),
    FGt(last5[Len(last5)].high, last5[1].high)
      /\ FLt(Num(FromEnd(rsiLast, 0)), Num(At(rsiLast, 0))))

detectMomentumShift(cs, rsi) == MomentumShiftIn(LastN(cs, 10), LastN(cs, 5), LastN(rsi, 5))

\* the loop "for (i = recent.length - 1; i >= 0; i--)" with its two breaks
RECURSIVE ConsecutiveLoop(_, _, _, _)
ConsecutiveLoop(bull, bear, recent, i) ==
  IF i < 0 THEN [bull |-> bull, bear |-> bear]
  ELSE IF FGt(recent[i + 1].close, recent[i + 1].open)
       THEN IF bear = 0 THEN ConsecutiveLoop(bull + 1, bear, recent, i - 1)
            ELSE [bull |-> bull, bear |-> bear]
       ELSE IF bull = 0 THEN ConsecutiveLoop(bull, bear + 1, recent, i - 1)
            ELSE [bull |-> bull, bear |-> bear]

\* the object returned, from the values the function computes before
PriceActionOf(last, body, avgBody, upperRejection, lowerRejection, run) ==
  [currentBody        |-> body,
   avgBody            |-> avgBody,
   strength           |-> FDiv(body, avgBody),
   bodyRatio          |-> FDiv(body, FSub(last.high, last.low)),
   upperRejection     |-> upperRejection,
   lowerRejection     |-> lowerRejection,
   consecutiveBullish |-> run.bull,
   consecutiveBearish |-> run.bear,
   momentum           |-> IF run.bull >= 3 THEN "strong_bullish"
                          ELSE IF run.bear >= 3 THEN "strong_bearish" ELSE "neutral",
   signal             |-> IF lowerRejection /\ FGt(last.close, last.open) /\ FGt(body, avgBody)
                          THEN "bullish_reversal"
                          ELSE IF upperRejection /\ ~FGt(last.close, last.open)
                                  /\ FGt(body, avgBody)
                               THEN "bearish_reversal"
                          ELSE "none"]

\* the wicks of the last candle against 1.5 times its body
PriceActionAt(last, body, avgBody, run) ==
  PriceActionOf(last, body, avgBody,
                FGt(FSub(last.high, FMax(last.open, last.close)), FMul(body, FDec(15, 10))),
                FGt(FSub(FMin(last.open, last.close), last.low), FMul(body, FDec(15, 10))),
                run)

\* for a series that is not empty, as main passes it
analyzePriceActionStrength(cs, lookback) ==
  PriceActionAt(cs[Len(cs)], Body(cs[Len(cs)]),
                FDiv(BodySum(LastN(cs, lookback)), FInt(lookback)),
                ConsecutiveLoop(0, 0, LastN(cs, lookback), Len(LastN(cs, lookback)) - 1))

\* recent[i] turns up sharply after recent[i - 1] (JavaScript indices), or down
SharpReversalUp(recent, atr, i) ==
  /\ FLt(recent[i].close, recent[i].open)
  /\ FGt(recent[i + 1].close, recent[i + 1].open)
  /\ FGt(Body(recent[i + 1]), FMul(atr, FDec(5, 10)))

SharpReversalDown(recent, atr, i) ==
  /\ FGt(recent[i].close, recent[i].open)
  /\ FLt(recent[i + 1].close, recent[i + 1].open)
  /\ FGt(Body(recent[i + 1]), FMul(atr, FDec(5, 10)))

\* the zone pushed for a sharp reversal; the time stamp it copies is left out
Zone(recent, atr, i) ==
  [price    |-> IF SharpReversalUp(recent, atr, i) THEN recent[i + 1].low
                ELSE recent[i + 1].high,
   type     |-> IF SharpReversalUp(recent, atr, i) THEN "demand" ELSE "supply",
   strength |-> FDiv(Body(recent[i + 1]), atr)]

\* the zones pushed at the passes listed
ZonesAt(recent, atr, sharp) == [k \in 1..Len(sharp) |-> Zone(recent, atr, sharp[k])]

\* the loop "for (i = 1; i < recent.length - 1; i++)"
ReversalZones(recent, atr) ==
  ZonesAt(recent, atr,
          SelectSeq([i \in 1..(Len(recent) - 2) |-> i],
                    LAMBDA i : SharpReversalUp(recent, atr, i)
                               \/ SharpReversalDown(recent, atr, i)))

\* Math.max(...values) and Math.min(...values)
RECURSIVE MaxOf(_, _, _)
MaxOf(acc, values, i) ==
  IF i > Len(values) THEN acc ELSE MaxOf(FMax(acc, values[i]), values, i + 1)

RECURSIVE MinOf(_, _, _)
MinOf(acc, values, i) ==
  IF i > Len(values) THEN acc ELSE MinOf(FMin(acc, values[i]), values, i + 1)

\* the high and the low of recent.slice(i - 5, i)
WindowHigh(recent, i) == MaxOf(NInf, [k \in 1..5 |-> recent[i - 5 + k].high], 1)

WindowLow(recent, i) == MinOf(PInf, [k \in 1..5 |-> recent[i - 5 + k].low], 1)

\* the consolidation pushed for a window with the high and low given
Consolidation(high, low) ==
  [price    |-> FDiv(FAdd(high, low), FInt(2)),
   type     |-> "consolidation",
   strength |-> 5,
   range    |-> FSub(high, low)]

ConsolidationsAt(recent, tight) ==
  [k \in 1..Len(tight) |->
     Consolidation(WindowHigh(recent, tight[k]), WindowLow(recent, tight[k]))]

\* the loop "for (i = 5; i < recent.length; i++)"
Consolidations(recent, atr) ==
  ConsolidationsAt(recent,
                   SelectSeq([k \in 1..(Len(recent) - 5) |-> k + 4],
                             LAMBDA i : FLt(FSub(WindowHigh(recent, i), WindowLow(recent, i)),
                                            FMul(atr, FDec(15, 10)))))

\* the object returned, from the zones
LiquidityOf(zones, consolidations, close, atr) ==
  [reversalZones  |-> LastN(zones, 5),
   consolidations |-> LastN(consolidations, 3),
   hasNearbyZone  |-> \E k \in 1..Len(zones) :
                        FLt(FAbs(FSub(zones[k].price, close)), FMul(atr, FDec(5, 10)))]

\* identifyLiquidityZones on the last candles.length or 50 candles
LiquidityIn(recent, close, atr) ==
  LiquidityOf(ReversalZones(recent, atr), Consolidations(recent, atr), close, atr)

\* for a series that is not empty, as main passes it
identifyLiquidityZones(cs, atr) ==
  LiquidityIn(LastN(cs, IF Len(cs) < 50 THEN Len(cs) ELSE 50), cs[Len(cs)].close, atr)

(***************************************************************************)
(* The composite scorer of performEnhancedAnalysis.  The entry score is a  *)
(* sum of small integers, which floating point keeps exact: it is an       *)
(* integer here.                                                           *)
(***************************************************************************)

\* the entry score: 50, then the contributions in the order of the code
EntryScore(a) ==
  50
  + (IF a.orderFlow.bias = "bullish" THEN 10 ELSE 0)
  - (IF a.orderFlow.bias = "bearish" THEN 10 ELSE 0)
  + (IF a.momentumShift.divergence = "bullish" THEN 15 ELSE 0)
  - (IF a.momentumShift.divergence = "bearish" THEN 15 ELSE 0)
  + (IF a.priceAction.signal = "bullish_reversal" THEN 12 ELSE 0)
  - (IF a.priceAction.signal = "bearish_reversal" THEN 12 ELSE 0)
  + (IF a.levelStrength.signal = "potential_bounce" THEN 10 ELSE 0)
  - (IF a.levelStrength.signal = "potential_rejection" THEN 10 ELSE 0)
  + (IF a.h4Trend.structure = "uptrend" THEN 8 ELSE 0)
  - (IF a.h4Trend.structure = "downtrend" THEN 8 ELSE 0)
  + (IF FLt(a.rsi, FInt(30)) THEN 8 ELSE 0)
  - (IF FGt(a.rsi, FInt(70)) THEN 8 ELSE 0)
  + (IF FGt(a.histogram, a.histogramPrev) THEN 5 ELSE -5)
  - (IF FLt(a.h4ADX.adx, FInt(15)) THEN 10 ELSE 0)
  - (IF ~a.levelStrength.nearLevel /\ ~a.liquidity.hasNearbyZone THEN 15 ELSE 0)

Bias(entryScore) ==
  IF entryScore > 60 THEN "BULLISH" ELSE IF entryScore < 40 THEN "BEARISH" ELSE "NEUTRAL"

Strength(entryScore) ==
  IF entryScore > 70 \/ entryScore < 30 THEN "STRONG"
  ELSE IF entryScore > 60 \/ entryScore < 40 THEN "MODERATE" ELSE "WEAK"

\* a plausible slip: the thresholds of the recommendation taken inclusively
Recommendation_inclusive(entryScore) ==
  IF entryScore >= 65 THEN "BUY" ELSE IF entryScore <= 35 THEN "SELL" ELSE "WAIT"

Recommendation(entryScore) ==
  IF entryScore > 65 THEN "BUY" ELSE IF entryScore < 35 THEN "SELL" ELSE "WAIT"

EntryType(a) ==
  IF a.levelStrength.atLevel THEN "IMMEDIATE"
  ELSE IF a.levelStrength.nearLevel THEN "WAIT_FOR_LEVEL"
  ELSE IF a.momentumShift.earlySignal THEN "EARLY_ENTRY" ELSE "WAIT_FOR_SETUP"

\* one entry of the reasoning list: the sentence by its category and wording, and the
\* number printed in it
Reason(category, wording, printed) ==
  [category |-> category, wording |-> wording, printed |-> printed]

NoNumber == [special |-> "none", digits |-> 0, decimals |-> 0]

\* the seven if-statements of generateReasoning, each by what it pushes
FlowReasons(orderFlow) ==
  IF orderFlow.signal = "strong_buy"
  THEN <<Reason("orderFlow", "Strong buying pressure detected",
                ToFixed(FMul(orderFlow.strength, FInt(100)), 0))>>
  ELSE IF orderFlow.signal = "strong_sell"
       THEN <<Reason("orderFlow", "Strong selling pressure detected",
                     ToFixed(FMul(orderFlow.strength, FInt(100)), 0))>>
       ELSE <<>>

DivergenceReasons(momentumShift) ==
  IF momentumShift.divergence = "bullish"
  THEN <<Reason("divergence", "Bullish divergence", NoNumber)>>
  ELSE IF momentumShift.divergence = "bearish"
       THEN <<Reason("divergence", "Bearish divergence", NoNumber)>>
       ELSE <<>>

ReversalReasons(priceAction) ==
  IF priceAction.signal = "bullish_reversal"
  THEN <<Reason("priceAction", "Bullish reversal pattern", ToFixed(priceAction.strength, 1))>>
  ELSE IF priceAction.signal = "bearish_reversal"
       THEN <<Reason("priceAction", "Bearish reversal pattern",
                     ToFixed(priceAction.strength, 1))>>
       ELSE <<>>

LevelReasons(levelStrength) ==
  IF levelStrength.atLevel
  THEN <<Reason("level", "Price AT level", ToFixed(FInt(levelStrength.strength), 0))>>
  ELSE IF levelStrength.nearLevel
       THEN <<Reason("level", "Price approaching", ToFixed(levelStrength.distanceATR, 2))>>
       ELSE <<>>

RunReasons(priceAction) ==
  IF priceAction.consecutiveBullish >= 3
  THEN <<Reason("run", "consecutive bullish candles",
                ToFixed(FInt(priceAction.consecutiveBullish), 0))>>
  ELSE IF priceAction.consecutiveBearish >= 3
       THEN <<Reason("run", "consecutive bearish candles",
                     ToFixed(FInt(priceAction.consecutiveBearish), 0))>>
       ELSE <<>>

TrendReasons(trend, adx) ==
  IF trend.structure = "uptrend" /\ FGt(adx.adx, FInt(20))
  THEN <<Reason("trend", "Clear uptrend structure", ToFixed(adx.adx, 1))>>
  ELSE IF trend.structure = "downtrend" /\ FGt(adx.adx, FInt(20))
       THEN <<Reason("trend", "Clear downtrend structure", ToFixed(adx.adx, 1))>>
       ELSE <<>>

AccelerationReasons(momentumShift) ==
  IF momentumShift.accelerating
  THEN <<Reason("acceleration", "Momentum accelerating",
                ToFixed(momentumShift.acceleration, 2))>>
  ELSE <<>>

\* a plausible slip: the fallback entry pushed without the test of the length
OrNoSetup_always(reasons) == Append(reasons, Reason("none", "No clear setup", NoNumber))

\* if (reasons.length === 0) reasons.push('No clear setup ...')
OrNoSetup(reasons) ==
  IF Len(reasons) = 0 THEN <<Reason("none", "No clear setup", NoNumber)>> ELSE reasons

\* the signals object passed first is never read by the function
generateReasoning(orderFlow, momentumShift, priceAction, levelStrength, trend, adx) ==
  OrNoSetup(FlowReasons(orderFlow) \o DivergenceReasons(momentumShift)
              \o ReversalReasons(priceAction) \o LevelReasons(levelStrength)
              \o RunReasons(priceAction) \o TrendReasons(trend, adx)
              \o AccelerationReasons(momentumShift))

\* a plausible slip: the score reported is clamped to the range 0..100
Rounded_clamped(entryScore) ==
  IF entryScore > 100 THEN 100 ELSE IF entryScore < 0 THEN 0 ELSE entryScore

\* Math.round(entryScore): the score is an integer already
Rounded(entryScore) == entryScore

\* the tradingSignal object at the score given, but for its reasoning list
SignalAt(entryScore, a) ==
  [entryScore     |-> Rounded(entryScore),
   bias           |-> Bias(entryScore),
   strength       |-> Strength(entryScore),
   recommendation |-> Recommendation(entryScore),
   confidence     |-> FMul(FDiv(FAbs(FSub(FInt(entryScore), FInt(50))), FInt(50)), FInt(100)),
   entryType      |-> EntryType(a)]

\* the tradingSignal object, but for its reasoning list
TradingSignal(a) == SignalAt(EntryScore(a), a)

\* the tradingSignal object
WithReasoning(signal, reasoning) ==
  [entryScore     |-> signal.entryScore,
   bias           |-> signal.bias,
   strength       |-> signal.strength,
   recommendation |-> signal.recommendation,
   confidence     |-> signal.confidence,
   entryType      |-> signal.entryType,
   reasoning      |-> reasoning]

\* a plausible slip: the snapshot stamped with the time of the call
CurrentTime_ofCall(h4Data, now) == now

\* current.time: the time of the last candle, which is its place in the series
CurrentTime(h4Data, now) == Len(h4Data)

\* what the score reads of the values computed before it: the leading indicators and
\* the trend, and the last values of the lagging ones
Scored(computed, last, h4ADX) ==
  [orderFlow     |-> computed.orderFlow,
   momentumShift |-> computed.momentumShift,
   priceAction   |-> computed.priceAction,
   levelStrength |-> computed.levelStrength,
   h4Trend       |-> computed.h4Trend,
   rsi           |-> Num(last.rsi),
   histogram     |-> Num(last.histogram),
   histogramPrev |-> Num(last.histogramPrev),
   h4ADX         |-> h4ADX,
   liquidity     |-> computed.liquidity]

\* the object returned: "const analysis = { ... }"
Analysis(h4Data, pairName, now, basic, computed, last) ==
  [pair      |-> pairName,
   timestamp |-> now,
   current   |-> [price |-> basic.currentPrice, time |-> CurrentTime(h4Data, now)],
   leadingIndicators |->
     [orderFlow      |-> computed.orderFlow,
      momentumShift  |-> computed.momentumShift,
      priceAction    |-> computed.priceAction,
      levelStrength  |-> computed.levelStrength,
      liquidityZones |-> computed.liquidity],
   laggingIndicators |->
     [rsi  |-> [current |-> last.rsi,
                status  |-> IF FGt(Num(last.rsi), FInt(70)) THEN "overbought"
                            ELSE IF FLt(Num(last.rsi), FInt(30)) THEN "oversold"
                            ELSE "neutral"],
      macd |-> [histogram |-> last.histogram,
                trending  |-> IF FGt(Num(last.histogram), Num(last.histogramPrev))
                              THEN "up" ELSE "down"],
      adx  |-> [value    |-> basic.h4ADX.adx,
                strength |-> IF FGt(basic.h4ADX.adx, FInt(25)) THEN "strong"
                             ELSE IF FGt(basic.h4ADX.adx, FInt(15)) THEN "moderate"
                             ELSE "weak"],
      ema  |-> [ema20     |-> last.ema20,
                ema50     |-> last.ema50,
                alignment |-> IF FGt(Num(last.ema20), Num(last.ema50)) THEN "bullish"
                              ELSE "bearish"]],
   structure |-> [trend      |-> computed.h4Trend.structure,
                  recentHigh |-> computed.h4Trend.recentHigh,
                  recentLow  |-> computed.h4Trend.recentLow],
   tradingSignal |->
     WithReasoning(TradingSignal(Scored(computed, last, basic.h4ADX)),
                   generateReasoning(computed.orderFlow, computed.momentumShift,
                                     computed.priceAction, computed.levelStrength,
                                     computed.h4Trend, basic.h4ADX)),
   keyLevels |->
     [support      |-> IF computed.levelStrength.type = "support"
                       THEN computed.levelStrength.price ELSE Null,
      resistance   |-> IF computed.levelStrength.type = "resistance"
                       THEN computed.levelStrength.price ELSE Null,
      nearestLevel |-> computed.levelStrength.price,
      atr          |-> basic.h4ATR.current]]

\* performEnhancedAnalysis from the trend structure on, the basic indicators given: the
\* trend and the leading indicators, and the elements at the ends of the arrays
LeadingIndicators(h4Data, pairName, now, basic) ==
  Analysis(h4Data, pairName, now, basic,
           [h4Trend       |-> identifyTrendStructure(h4Data, basic.h4Swings),
            orderFlow     |-> analyzeOrderFlow(h4Data, 20),
            momentumShift |-> detectMomentumShift(h4Data, basic.h4RSI),
            priceAction   |-> analyzePriceActionStrength(h4Data, 20),
            levelStrength |-> analyzeLevelStrength(h4Data, basic.h4Swings,
                                                   basic.currentPrice, basic.h4ATR.current),
            liquidity     |-> identifyLiquidityZones(h4Data, basic.h4ATR.current)],
           [rsi           |-> FromEnd(basic.h4RSI, 0),
            histogram     |-> FromEnd(basic.h4MACD.histogram, 0),
            histogramPrev |-> FromEnd(basic.h4MACD.histogram, 1),
            ema20         |-> FromEnd(basic.h4EMA20, 0),
            ema50         |-> FromEnd(basic.h4EMA50, 0)])

\* performEnhancedAnalysis for a series that is not empty, as main passes it; now is
\* what new Date() reads.  dailyData is never read.
performEnhancedAnalysis(h4Data, pairName, now) ==
  LeadingIndicators(h4Data, pairName, now,
                    [h4RSI        |-> calculateRSI(h4Data, 14),
                     h4MACD       |-> calculateMACD(h4Data),
                     h4ATR        |-> calculateATR(h4Data, 14),
                     h4ADX        |-> calculateADX(h4Data, 14),
                     h4EMA20      |-> calculateEMA(Closes(h4Data), 20),
                     h4EMA50      |-> calculateEMA(Closes(h4Data), 50),
                     currentPrice |-> h4Data[Len(h4Data)].close,
                     h4Swings     |-> identifySwingPoints(h4Data, 5)])

(***************************************************************************)
(* The batch driver.  A raw array of provider records is kept by its       *)
(* length and by whether one of its entries is null (malformed): these     *)
(* decide every branch of main().  An Analysis Result is kept here by its  *)
(* pair; the scoring that fills it is modelled above.                      *)
(***************************************************************************)

RawArray(n, bad) == [len |-> n, malformed |-> bad]

\* fetchData: a rejected fetch and an error status are caught and give [], a reply
\* without values gives []
fetchData(answer) ==
  IF answer.kind = "values" THEN answer.values ELSE RawArray(0, FALSE)

\* the item fetchAllData pushes for one pair
FetchedItem(pair, answers) ==
  [pair |-> pair, h4 |-> fetchData(answers.h4), daily |-> fetchData(answers.daily)]

\* normalize(data) reads c.datetime of every entry: a null entry throws
normalizeThrows(data) == data.malformed

\* a plausible slip: only an empty series counts as insufficient
IsInsufficient_emptyOnly(item) == item.h4.len = 0

\* !item.h4 || item.h4.length < 50
IsInsufficient(item) == item.h4.len < 50

InsufficientEntry(item) ==
  [pair |-> item.pair, error |-> "Insufficient H4 data", dataPoints |-> item.h4.len]

\* a plausible slip: the catch block logs the error and pushes nothing
Caught_logOnly(rs, item, message) == rs

\* the catch block: results.push({ pair, error: e.message })
Caught(rs, item, message) == Append(rs, [pair |-> item.pair, error |-> message])

\* the body of the loop of main() for one item: results after it
AnalyzedInto(rs, item) ==
  IF IsInsufficient(item) THEN Append(rs, InsufficientEntry(item))
  ELSE IF normalizeThrows(item.h4)
            \/ (item.daily.len > 0 /\ normalizeThrows(item.daily))
       THEN Caught(rs, item, "Cannot read properties of null (reading 'datetime')")
       ELSE Append(rs, [pair |-> item.pair, tradingSignal |-> "computed"])

IsErrorEntry(r) == "error" \in DOMAIN r

\* the summary filters on !r.error && r.tradingSignal.recommendation: it throws on an
\* entry that has neither a non-empty error nor a tradingSignal
SummaryThrows(rs) ==
  \E k \in 1..Len(rs) :
    /\ ~(IsErrorEntry(rs[k]) /\ rs[k].error # "")
    /\ "tradingSignal" \notin DOMAIN rs[k]

(***************************************************************************)
(* State.  Four groups: a call of one library function (its arguments and  *)
(* what it returned), the clustering calls of identifySupportResistance,   *)
(* the batch that main() runs, and the clock the analysis reads.  Each     *)
(* specification below drives one group and leaves the others idle.        *)
(***************************************************************************)
VARIABLES
  pc,           \* where the caller stands
  candles,      \* the candle series passed in
  period,       \* the period argument
  lookback,     \* the lookback argument
  call,         \* the function that was called
  result,       \* what it returned
  analyzed,     \* the analyzers' and indicators' outputs the scorer reads
  swings,       \* identifySupportResistance: the swing list passed in
  currentPrice, \* identifySupportResistance: the current price passed in
  atr,          \* identifySupportResistance: the ATR passed in
  clusters,     \* identifySupportResistance: its array "clusters" after the last call
  returns,      \* the values the calls made so far returned, in order
  world,        \* main: what the data provider answers, per pair and interval
  rawData,      \* main: what fetchAllData has collected
  idx,          \* main: the index of the loop over rawData
  results,      \* main: its array "results"
  clock         \* the wall clock, in ticks

libVars == <<candles, period, lookback, call, result, analyzed>>

srVars == <<swings, currentPrice, atr, clusters, returns>>

batchVars == <<world, rawData, idx, results>>

vars == <<pc, libVars, srVars, batchVars, clock>>

LibIdle ==
  /\ candles = <<>> /\ period = 0 /\ lookback = 0
  /\ call = "none" /\ result = <<>> /\ analyzed = "none"

SRIdle ==
  /\ swings = <<>> /\ currentPrice = Zero /\ atr = Zero
  /\ clusters = <<>> /\ returns = <<>>

BatchIdle == world = <<>> /\ rawData = <<>> /\ idx = 0 /\ results = <<>>

MaxFlatLen == 4

MaxShapedLen == 4

MaxLongLen == 36

MaxPeriod == 3

SeqsUpTo(S, n) == UNION {[1..k -> S] : k \in 0..n}

\* a candle; low <= open, close <= high
Candle(o, h, l, c) == [open |-> o, high |-> h, low |-> l, close |-> c]

\* zero-range candles, one per quoted price
QuotePrices == {FDec(1, 10), FInt(1), FInt(3), FInt(7)}

FlatCandles == {Candle(q, q, q, q) : q \in QuotePrices}

\* candles with a range, over two prices
ShapedCandles ==
  {Candle(FInt(l), FInt(h), FInt(l), FInt(c)) :
     <<l, h, c>> \in {t \in (1..2) \X (1..2) \X (1..2) : t[1] <= t[3] /\ t[3] <= t[2]}}

\* long series of zero-range candles: level, rising, oscillating
LongClose(shape, i) ==
  CASE shape = "level"  -> FInt(5)
    [] shape = "rising" -> FInt(i)
    [] OTHER            -> FDec(100 + ((i * i) % 7), 100)

LongSeries ==
  {[i \in 1..n |-> LET q == LongClose(shape, i) IN Candle(q, q, q, q)] :
     n \in 0..MaxLongLen, shape \in {"level", "rising", "wave"}}

InitInd ==
  /\ pc = "start"
  /\ candles \in SeqsUpTo(FlatCandles, MaxFlatLen)
                   \cup SeqsUpTo(ShapedCandles, MaxShapedLen) \cup LongSeries
  /\ period \in 1..MaxPeriod
  /\ lookback = 0
  /\ call = "none"
  /\ result = <<>>
  /\ analyzed = "none"
  /\ SRIdle /\ BatchIdle /\ clock = 0

Return(f, value) ==
  /\ pc = "start"
  /\ pc' = "done"
  /\ call' = f
  /\ result' = value
  /\ UNCHANGED <<candles, period, lookback, analyzed, srVars, batchVars, clock>>

callSMA == Return("SMA", calculateSMA(Closes(candles), period))

callEMA == Return("EMA", calculateEMA(Closes(candles), period))

callRSI == Return("RSI", calculateRSI(candles, period))

callMACD == Return("MACD", calculateMACD(candles))

callATR == Return("ATR", calculateATR(candles, period))

callADX == Return("ADX", calculateADX(candles, period))

NextInd == callSMA \/ callEMA \/ callRSI \/ callMACD \/ callATR \/ callADX

SpecInd == InitInd /\ [][NextInd]_vars

(***************************************************************************)
(* A call of the swing-point detector.                                     *)
(***************************************************************************)

MaxSwingLen == 5

MaxLookback == 2

\* candles that differ in their high and in their low
SwingCandles ==
  {Candle(FInt(l), FInt(h), FInt(l), FInt(h)) :
     <<l, h>> \in {<<0, 2>>, <<1, 3>>, <<0, 4>>, <<1, 2>>}}

InitSwing ==
  /\ pc = "start"
  /\ candles \in SeqsUpTo(SwingCandles, MaxSwingLen)
  /\ period = 0
  /\ lookback \in 1..MaxLookback
  /\ call = "none"
  /\ result = <<>>
  /\ analyzed = "none"
  /\ SRIdle /\ BatchIdle /\ clock = 0

callSwingPoints == Return("identifySwingPoints", identifySwingPoints(candles, lookback))

NextSwing == callSwingPoints

SpecSwing == InitSwing /\ [][NextSwing]_vars
(***************************************************************************)
(* The scoring step, on every combination of what the analyzers report.    *)
(* The nearest level is given by its price; the current price is 10 and    *)
(* the ATR is 1 or, for a series without range, 0.                         *)
(***************************************************************************)

ScoredPrice == FInt(10)

\* what identifySupportResistance can return first: no level, or a level whose type
\* follows from its price
NearestLevels ==
  {<<>>} \cup
  {<<[type |-> IF FGt(p, ScoredPrice) THEN "resistance" ELSE "support", price |-> p,
      strength |-> 2]>> :
     p \in {FDec(99, 10), FDec(97, 10), FInt(9), FDec(101, 10), FDec(103, 10)}}

MomentumShifts ==
  {[divergence |-> dv, earlySignal |-> dv # "none"] : dv \in {"bullish", "bearish", "none"}}

Analyzed ==
  {[orderFlow     |-> [bias |-> ob],
    momentumShift |-> ms,
    priceAction   |-> [signal |-> pa],
    levelStrength |-> LevelStrengthOf(nl, <<>>, ScoredPrice, range),
    h4Trend       |-> [structure |-> tr],
    rsi           |-> rsi,
    histogram     |-> h[1],
    histogramPrev |-> h[2],
    h4ADX         |-> [adx |-> adx],
    liquidity     |-> [hasNearbyZone |-> z]] :
     ob \in {"bullish", "bearish", "neutral"},
     ms \in MomentumShifts,
     pa \in {"bullish_reversal", "bearish_reversal", "none"},
     nl \in NearestLevels,
     range \in {FInt(1), Zero},
     tr \in {"uptrend", "downtrend", "ranging"},
     rsi \in {FInt(25), FInt(50), FInt(75)},
     h \in {<<FInt(1), Zero>>, <<Zero, FInt(1)>>, <<Zero, Zero>>},
     adx \in {FInt(10), FInt(18), FInt(30), NaN},
     z \in BOOLEAN}

InitScore ==
  /\ pc = "start"
  /\ candles = <<>>
  /\ period = 0
  /\ lookback = 0
  /\ call = "none"
  /\ result = <<>>
  /\ analyzed \in Analyzed
  /\ SRIdle /\ BatchIdle /\ clock = 0

\* performEnhancedAnalysis from its composite score on
scoreEntry == Return("tradingSignal", TradingSignal(analyzed))

NextScore == scoreEntry

SpecScore == InitScore /\ [][NextScore]_vars

(***************************************************************************)
(* main(): fetchAllData over the configured pairs, then the analysis loop. *)
(***************************************************************************)

NumPairs == 2

\* CONFIG.pairs, of which the batch takes the first NumPairs
ConfigPairs ==
  <<"EUR/USD", "GBP/JPY", "USD/JPY", "AUD/USD", "AUD/CHF", "EUR/GBP", "CAD/JPY", "AUD/JPY">>

Pairs == SubSeq(ConfigPairs, 1, NumPairs)

H4Answers ==
  {[kind |-> "network_error"], [kind |-> "api_error"]}
    \cup {[kind |-> "values", values |-> RawArray(n, FALSE)] : n \in {0, 10, 49, 50}}
    \cup {[kind |-> "values", values |-> RawArray(50, TRUE)]}

DailyAnswers ==
  {[kind |-> "api_error"],
   [kind |-> "values", values |-> RawArray(30, FALSE)],
   [kind |-> "values", values |-> RawArray(30, TRUE)]}

InitMain ==
  /\ pc = "fetching"
  /\ world \in [1..NumPairs -> [h4 : H4Answers, daily : DailyAnswers]]
  /\ rawData = <<>>
  /\ idx = 0
  /\ results = <<>>
  /\ LibIdle /\ SRIdle /\ clock = 0

\* one round of the loop of fetchAllData
fetchPair ==
  /\ pc = "fetching"
  /\ Len(rawData) < NumPairs
  /\ rawData' = Append(rawData, FetchedItem(Pairs[Len(rawData) + 1], world[Len(rawData) + 1]))
  /\ UNCHANGED <<pc, world, idx, results, libVars, srVars, clock>>

\* fetchAllData returns; main starts its loop with results = []
startAnalysis ==
  /\ pc = "fetching"
  /\ Len(rawData) = NumPairs
  /\ pc' = "analyzing"
  /\ idx' = 0
  /\ results' = <<>>
  /\ UNCHANGED <<world, rawData, libVars, srVars, clock>>

\* one round of the loop of main, its try and its catch
analyzeItem ==
  /\ pc = "analyzing"
  /\ idx < Len(rawData)
  /\ results' = AnalyzedInto(results, rawData[idx + 1])
  /\ idx' = idx + 1
  /\ UNCHANGED <<pc, world, rawData, libVars, srVars, clock>>

\* after the loop: the summary, then return results
finish ==
  /\ pc = "analyzing"
  /\ idx = Len(rawData)
  /\ pc' = IF SummaryThrows(results) THEN "crashed" ELSE "returned"
  /\ UNCHANGED <<world, rawData, idx, results, libVars, srVars, clock>>

NextMain == fetchPair \/ startAnalysis \/ analyzeItem \/ finish

SpecMain == InitMain /\ [][NextMain]_vars

(***************************************************************************)
(* Calls of identifySupportResistance on one swing list, in the order      *)
(* given or reversed.                                                      *)
(***************************************************************************)

MaxSwings == 3

MaxCalls == 3

SwingPrices == {FInt(1), FInt(2), FInt(3)}

SwingLists ==
  UNION {{[i \in 1..n |-> Swing("high", i - 1, ps[i])] : ps \in [1..n -> SwingPrices]} :
           n \in 0..MaxSwings}

Reversed(s) == [i \in 1..Len(s) |-> s[Len(s) + 1 - i]]

InitSR ==
  /\ pc = "ready"
  /\ swings \in SwingLists
  /\ currentPrice \in {FInt(2), FDec(5, 2)}
  /\ atr \in {FInt(1), FInt(3)}
  /\ clusters = <<>>
  /\ returns = <<>>
  /\ LibIdle /\ BatchIdle /\ clock = 0

\* one call; clusters is the array of the call as the call leaves it
callSupportResistance ==
  /\ pc = "ready"
  /\ Len(returns) < MaxCalls
  /\ \E order \in {"given", "reversed"} :
       /\ clusters' = ClustersOf(NewClusters(clusters),
                                 IF order = "given" THEN swings ELSE Reversed(swings), atr)
       /\ returns' = Append(returns, [order    |-> order,
                                      clusters |-> clusters',
                                      levels   |-> LevelsOf(clusters', currentPrice, atr)])
  /\ UNCHANGED <<pc, swings, currentPrice, atr, libVars, batchVars, clock>>

NextSR == callSupportResistance

SpecSR == InitSR /\ [][NextSR]_vars

(***************************************************************************)
(* Calls of performEnhancedAnalysis, at the moments the clock shows.       *)
(***************************************************************************)

PureLen == 50

MaxAnalyses == 3

MaxClock == 2

\* closes that swing between 20 and 26, and closes that rise
PureClose(shape, i) ==
  IF shape = "zigzag"
  THEN FInt(20 + (IF i % 12 < 6 THEN 6 - (i % 12) ELSE (i % 12) - 6))
  ELSE FInt(20 + i)

\* a series of PureLen candles, each opening where the one before closed, with wicks
PureSeries(shape) ==
  [i \in 1..PureLen |->
     LET o == PureClose(shape, i - 1)
         c == PureClose(shape, i)
     IN Candle(o, FAdd(FMax(o, c), FDec(5, 10)), FSub(FMin(o, c), FDec(5, 10)), c)]

\* two instruments and the series held for each
Instruments ==
  {[pair |-> ConfigPairs[1], h4 |-> PureSeries("zigzag")],
   [pair |-> ConfigPairs[2], h4 |-> PureSeries("rising")]}

InitPure ==
  /\ pc = "ready"
  /\ candles = <<>>
  /\ returns = <<>>
  /\ clock = 0
  /\ period = 0 /\ lookback = 0 /\ call = "none" /\ result = <<>> /\ analyzed = "none"
  /\ swings = <<>> /\ currentPrice = Zero /\ atr = Zero /\ clusters = <<>>
  /\ BatchIdle

\* time passes
tick ==
  /\ clock < MaxClock
  /\ clock' = clock + 1
  /\ UNCHANGED <<pc, libVars, srVars, batchVars>>

\* one call; no statement of the function or of those it calls assigns to the series or
\* to a candle of it (slice, map, filter, reduce and some build new arrays), so the
\* caller finds the series as it gave it
analyze ==
  /\ pc = "ready"
  /\ Len(returns) < MaxAnalyses
  /\ \E instrument \in Instruments :
       /\ candles' = instrument.h4
       /\ returns' = Append(returns,
                            [given  |-> instrument.h4,
                             pair   |-> instrument.pair,
                             at     |-> clock,
                             result |-> performEnhancedAnalysis(instrument.h4,
                                                                instrument.pair, clock)])
  /\ UNCHANGED <<pc, period, lookback, call, result, analyzed,
                 swings, currentPrice, atr, clusters, batchVars, clock>>

NextPure == tick \/ analyze

SpecPure == InitPure /\ [][NextPure]_vars

(***************************************************************************)
(* The indicator library: what the calls return.                           *)
(***************************************************************************)

Returned(f) == pc = "done" /\ call = f

\* every close of the series is the same value
ConstantSeries(cs) == \A i, j \in 1..Len(cs) : cs[i].close = cs[j].close

StrictlyRising(cs) == \A i \in 1..(Len(cs) - 1) : FLt(cs[i].close, cs[i + 1].close)

\* the integer a value stands for, -1 when it is not a positive integer
AsInteger(v) ==
  IF IsFin(v) /\ v.m > 0 /\ v.e <= 0 /\ v.e > -Prec /\ v.m % 2^(-v.e) = 0
  THEN v.m \div 2^(-v.e)
  ELSE -1

IsPowerOfTwo(n) == \E t \in 0..Prec : n = 2^t

C6_ConstantExactlyV ==
  (Returned("SMA") \/ Returned("EMA")) /\ ConstantSeries(candles) =>
    /\ Len(candles) >= period =>
         /\ Len(result) = Len(candles) - period + 1
         /\ \A i \in 1..Len(result) : result[i] = candles[1].close
    /\ Len(candles) < period => result = <<>>

\* C6 amended: on a constant series SMA and EMA return len - p + 1 values, the empty
\* series when len < p; the values are exactly v where the arithmetic is exact: for
\* SMA when v is an integer with p * v within the significand, for EMA when moreover
\* p + 1 is a power of two.
C6_ConstantWithinRounding ==
  (Returned("SMA") \/ Returned("EMA")) /\ ConstantSeries(candles) =>
    /\ Len(candles) >= period =>
         /\ Len(result) = Len(candles) - period + 1
         /\ ( /\ AsInteger(candles[1].close) > 0
              /\ period * AsInteger(candles[1].close) <= 2^Prec
              /\ call = "EMA" => IsPowerOfTwo(period + 1) )
            => \A i \in 1..Len(result) : result[i] = candles[1].close
    /\ Len(candles) < period => result = <<>>

\* C6 witness: an EMA of period 3 over four candles at 3: two values, both 3
C6_Witness ==
  Returned("EMA") /\ ConstantSeries(candles) /\ Len(candles) = 4 /\ period = 3
    /\ candles[1].close = FInt(3) /\ result = <<FInt(3), FInt(3)>>

\* the value of 100 - 100 / (1 + 100)
RSICeiling == FSub(FInt(100), FDiv(FInt(100), FAdd(FInt(1), FInt(100))))

\* C8: for strictly rising closes and at least period + 1 candles calculateRSI returns
\* len - period values, each 100 - 100/(1 + 100), which is at least 99 and below 100;
\* for fewer than period + 1 candles it returns the empty series.
C8_RisingRSI ==
  Returned("RSI") =>
    /\ Len(candles) >= period + 1 /\ StrictlyRising(candles) =>
         /\ Len(result) = Len(candles) - period
         /\ \A i \in 1..Len(result) :
              /\ result[i] = RSICeiling
              /\ FGe(result[i], FInt(99)) /\ FLt(result[i], FInt(100))
    /\ Len(candles) < period + 1 => result = <<>>

\* C8 witness: four rising closes, period 2: two windows
C8_Witness ==
  Returned("RSI") /\ StrictlyRising(candles) /\ Len(candles) = 4 /\ period = 2
    /\ Len(result) = 2

\* C9 as stated: every value calculateATR, calculateRSI and calculateADX return is a
\* defined number.
C9_AllDefined ==
  /\ Returned("RSI") => \A i \in 1..Len(result) : ~IsNaN(result[i])
  /\ Returned("ATR") =>
       ~IsNaN(result.current) /\ \A i \in 1..Len(result.values) : ~IsNaN(result.values[i])
  /\ Returned("ADX") =>
       /\ ~IsNaN(result.adx) /\ ~IsNaN(result.plusDI) /\ ~IsNaN(result.minusDI)
       /\ \A i \in 1..Len(result.values) :
            /\ ~IsNaN(result.values[i].adx)
            /\ ~IsNaN(result.values[i].plusDI)
            /\ ~IsNaN(result.values[i].minusDI)

(***************************************************************************)
(* The swing-point detector.                                               *)
(***************************************************************************)

\* the JavaScript indices flagged as a swing high
HighSwingsAt(i) == {k \in 1..Len(result) : result[k].type = "high" /\ result[k].index = i}

\* C1: index i is flagged as a high exactly when every candle within lookback on
\* either side has a strictly smaller high; so a unique global maximum with lookback
\* candles on each side gives exactly one high swing at its index, and no candle of a
\* run of equal adjacent highs is flagged.
C1_StrictSwingHighs ==
  Returned("identifySwingPoints") =>
    /\ \A i \in 0..(Len(candles) - 1) :
         /\ (HighSwingsAt(i) # {}) <=>
              /\ lookback <= i /\ i < Len(candles) - lookback
              /\ \A j \in 1..lookback :
                   /\ FLt(candles[i - j + 1].high, candles[i + 1].high)
                   /\ FLt(candles[i + j + 1].high, candles[i + 1].high)
         /\ Cardinality(HighSwingsAt(i)) <= 1
         /\ \A k \in HighSwingsAt(i) : result[k].price = candles[i + 1].high
    /\ \A i \in lookback..(Len(candles) - lookback - 1) :
         (\A k \in 0..(Len(candles) - 1) :
            k # i => FLt(candles[k + 1].high, candles[i + 1].high))
         => Cardinality(HighSwingsAt(i)) = 1
    /\ \A i \in 0..(Len(candles) - 2) :
         candles[i + 1].high = candles[i + 2].high
         => HighSwingsAt(i) = {} /\ HighSwingsAt(i + 1) = {}

\* C1 witness: five candles, lookback 2, the high of the middle one above the rest
C1_Witness ==
  Returned("identifySwingPoints") /\ lookback = 2 /\ Len(candles) = 5
    /\ Cardinality(HighSwingsAt(2)) = 1
    /\ \A k \in {0, 1, 3, 4} : FLt(candles[k + 1].high, candles[3].high)

(***************************************************************************)
(* The composite scorer.                                                   *)
(***************************************************************************)

\* C2: the recommendation is BUY iff the score is above 65, SELL iff below 35, else
\* WAIT; the bias is BULLISH iff above 60, BEARISH iff below 40, else NEUTRAL; so 65
\* gives WAIT and 60 gives NEUTRAL.
C2_StrictThresholds ==
  Returned("tradingSignal") =>
    LET s == result.entryScore
    IN /\ result.recommendation = "BUY" <=> s > 65
       /\ result.recommendation = "SELL" <=> s < 35
       /\ result.recommendation = "WAIT" <=> (35 <= s /\ s <= 65)
       /\ result.bias = "BULLISH" <=> s > 60
       /\ result.bias = "BEARISH" <=> s < 40
       /\ result.bias = "NEUTRAL" <=> (40 <= s /\ s <= 60)
       /\ s = 65 => result.recommendation = "WAIT"
       /\ s = 60 => result.bias = "NEUTRAL"

\* C2 witness: a score of exactly 65, where the recommendation is still WAIT
C2_Witness ==
  Returned("tradingSignal") /\ result.entryScore = 65 /\ result.recommendation = "WAIT"
    /\ result.bias = "BULLISH"

(***************************************************************************)
(* The batch.                                                              *)
(***************************************************************************)

\* the H4 series the provider delivered for pair k, as main sees it
DeliveredH4(k) == fetchData(world[k].h4)

\* pair k cannot be analyzed: too few H4 candles (a failed fetch leaves none), or a
\* record of its H4 or daily series that normalize cannot read
Fails(k) ==
  \/ DeliveredH4(k).len < 50
  \/ DeliveredH4(k).malformed
  \/ fetchData(world[k].daily).malformed

\* C3: an instrument with fewer than 50 H4 candles gets the insufficient-data record,
\* with its pair and its count of data points, and main does not throw.
C3_InsufficientData ==
  /\ pc # "crashed"
  /\ \A k \in 1..Len(results) :
       DeliveredH4(k).len < 50 =>
         results[k] = [pair |-> Pairs[k], error |-> "Insufficient H4 data",
                       dataPoints |-> DeliveredH4(k).len]

\* C3 witness: a series of 10 candles has been answered with the record
C3_Witness ==
  \E k \in 1..Len(results) :
    /\ world[k].h4 = [kind |-> "values", values |-> RawArray(10, FALSE)]
    /\ results[k].error = "Insufficient H4 data" /\ results[k].dataPoints = 10

\* a fetch of pair k was rejected or answered with an error status
FetchFailed(k) == world[k].h4.kind # "values" \/ world[k].daily.kind # "values"

\* C4 as stated: when main has returned, every pair whose fetching or analysis failed,
\* a failed fetch of either series included, has a {pair, error} record as its entry.
C4_EveryFailureReported ==
  pc = "returned" =>
    \A k \in 1..NumPairs : FetchFailed(k) \/ Fails(k) => IsErrorEntry(results[k])

\* C4: main never throws and every pass of its loop adds one entry, so when it returns
\* results holds one entry per pair in the order of the pairs: a {pair, error} record
\* for each pair whose H4 fetch failed or was too short or whose analysis threw, and
\* an analysis for each other pair, a failed daily fetch notwithstanding.
C4_BatchSurvives ==
  /\ pc # "crashed"
  /\ pc = "analyzing" => Len(results) = idx
  /\ pc = "returned" =>
       /\ Len(results) = NumPairs
       /\ \A k \in 1..NumPairs :
            /\ results[k].pair = Pairs[k]
            /\ Fails(k) => IsErrorEntry(results[k]) /\ results[k].error # ""
            /\ ~Fails(k) => results[k] = [pair |-> Pairs[k], tradingSignal |-> "computed"]

\* C4 witness: the first pair threw inside the analysis, the last was analyzed
C4_Witness ==
  /\ pc = "returned"
  /\ DeliveredH4(1).malformed
  /\ DOMAIN results[1] = {"pair", "error"}
  /\ ~Fails(NumPairs) /\ ~IsErrorEntry(results[NumPairs])

(***************************************************************************)
(* Support and resistance.                                                 *)
(***************************************************************************)

ClusterSet(r) == {r.clusters[k] : k \in 1..Len(r.clusters)}

\* C7: two calls on the same swing list in the same order, with the same current price
\* and ATR, build the same clusters and return the same levels; that the order matters
\* is the case of the witness.
C7_SameOrderSameLevels ==
  \A i, j \in 1..Len(returns) :
    returns[i].order = returns[j].order =>
      /\ returns[i].clusters = returns[j].clusters
      /\ returns[i].levels = returns[j].levels

\* C7 witness: a list was processed twice in one order, and once in the other order,
\* which gave a different set of centroids and touch counts
C7_Witness ==
  \E i, j, k \in 1..Len(returns) :
    /\ i # j
    /\ returns[i].order = returns[j].order
    /\ returns[k].order # returns[i].order
    /\ Len(returns[i].levels) > 0
    /\ ClusterSet(returns[k]) # ClusterSet(returns[i])

(***************************************************************************)
(* Calls of the analysis at different moments.                             *)
(***************************************************************************)

SameInput(i, j) ==
  returns[i].given = returns[j].given /\ returns[i].pair = returns[j].pair

Untimed(r) == [r EXCEPT !.timestamp = 0]

\* C10 as stated: two calls with the same series and pair name return results that are
\* identical in every field.
C10_IdenticalInEveryField ==
  \A i, j \in 1..Len(returns) : SameInput(i, j) => returns[i].result = returns[j].result

\* C10: two calls with the same series and pair name, whenever made and whatever was
\* analyzed in between, return results identical in every field but timestamp, which
\* is the moment of the call; and the series is left as it was given.
C10_IdenticalButForTimestamp ==
  /\ \A i, j \in 1..Len(returns) :
       SameInput(i, j) => Untimed(returns[i].result) = Untimed(returns[j].result)
  /\ \A i \in 1..Len(returns) : returns[i].result.timestamp = returns[i].at
  /\ Len(returns) > 0 => candles = returns[Len(returns)].given

\* C10 witness: the same instrument analyzed at two moments, another one in between
C10_Witness ==
  /\ Len(returns) = 3
  /\ SameInput(1, 3)
  /\ ~SameInput(1, 2)
  /\ returns[1].at # returns[3].at
  /\ returns[1].result.timestamp # returns[3].result.timestamp
  /\ returns[1].result.tradingSignal = returns[3].result.tradingSignal

(***************************************************************************)
(* The entry score as the sum of its contributions.                        *)
(***************************************************************************)

\* points for the bullish branch, their negative for the bearish one, else nothing
Signed(bullish, bearish, points) == IF bullish THEN points ELSE IF bearish THEN -points ELSE 0

\* the contributions that C11 lists, but for that of the MACD histogram
ListedContributions(a) ==
  Signed(a.orderFlow.bias = "bullish", a.orderFlow.bias = "bearish", 10)
  + Signed(a.momentumShift.divergence = "bullish", a.momentumShift.divergence = "bearish", 15)
  + Signed(a.priceAction.signal = "bullish_reversal",
           a.priceAction.signal = "bearish_reversal", 12)
  + Signed(a.levelStrength.signal = "potential_bounce",
           a.levelStrength.signal = "potential_rejection", 10)
  + Signed(a.h4Trend.structure = "uptrend", a.h4Trend.structure = "downtrend", 8)
  + Signed(FLt(a.rsi, FInt(30)), FGt(a.rsi, FInt(70)), 8)
  + Signed(FALSE, FLt(a.h4ADX.adx, FInt(15)), 10)
  + Signed(FALSE, ~a.levelStrength.nearLevel /\ ~a.liquidity.hasNearbyZone, 15)

\* C11 as stated: the entry score is 50 plus the contributions listed, that of the MACD
\* histogram being +5 when it rose against its previous value and -5 when it fell, a
\* neutral signal contributing nothing; the score is not clamped.
C11_SumOfContributions ==
  Returned("tradingSignal") =>
    result.entryScore =
      50 + ListedContributions(analyzed)
         + Signed(FGt(analyzed.histogram, analyzed.histogramPrev),
                  FLt(analyzed.histogram, analyzed.histogramPrev), 5)

\* C11 amended: the entry score is 50 plus the contributions listed, that of the MACD
\* histogram being +5 when it rose against its previous value and -5 in every other
\* case, an unchanged histogram included; the score is not clamped.
C11_SumWithFlatHistogramPenalised ==
  Returned("tradingSignal") =>
    result.entryScore =
      50 + ListedContributions(analyzed)
         + (IF FGt(analyzed.histogram, analyzed.histogramPrev) THEN 5 ELSE -5)

\* C11 witness: every bullish contribution at once, a score of 118, above 100
C11_Witness ==
  Returned("tradingSignal") /\ result.entryScore = 118
    /\ analyzed.orderFlow.bias = "bullish" /\ analyzed.levelStrength.signal = "potential_bounce"

(***************************************************************************)
(* The trading signal with its reasoning, for analyzer reports built as    *)
(* the analyzers build them: an order flow from its two pressures, a       *)
(* momentum shift from its acceleration and divergences, a price action    *)
(* from the last candle and the run it ends, a level strength from the     *)
(* nearest level, a trend from its four counts.                            *)
(***************************************************************************)

\* pressures whose ratio is 1, 0.4, 0, -0.4 and -1
OrderFlows ==
  {OrderFlowBetween(FInt(p[1]), FInt(p[2])) :
     p \in {<<3, 0>>, <<7, 3>>, <<1, 1>>, <<3, 7>>, <<0, 3>>}}

ReasonedShifts ==
  {MomentumShiftOf(acc, FInt(1), FInt(1), <<>>, dv[1], dv[2]) :
     acc \in {FInt(1), FDec(15, 10)},
     dv \in {<<TRUE, FALSE>>, <<FALSE, TRUE>>, <<FALSE, FALSE>>}}

\* a hammer, a shooting star and a small bullish candle, after candles whose bodies
\* average 1, each ending a run of its own direction
PriceActions ==
  {PriceActionAt(p[1], Body(p[1]), FInt(1), [bull |-> p[2], bear |-> p[3]]) :
     p \in {<<Candle(FInt(10), FInt(12), FInt(6), FInt(12)), 1, 0>>,
            <<Candle(FInt(10), FInt(12), FInt(6), FInt(12)), 3, 0>>,
            <<Candle(FInt(12), FInt(16), FInt(10), FInt(10)), 0, 1>>,
            <<Candle(FInt(12), FInt(16), FInt(10), FInt(10)), 0, 3>>,
            <<Candle(FInt(10), FInt(11), FInt(10), FInt(11)), 1, 0>>,
            <<Candle(FInt(10), FInt(11), FInt(10), FInt(11)), 4, 0>>}}

LevelStrengths == {LevelStrengthOf(nl, <<>>, ScoredPrice, FInt(1)) : nl \in NearestLevels}

Trends ==
  {TrendOf(<<>>, <<>>, n[1], n[2], n[3], n[4]) :
     n \in {<<2, 0, 2, 0>>, <<0, 2, 0, 2>>, <<1, 1, 1, 1>>}}

Reasoned ==
  {[orderFlow     |-> flow,
    momentumShift |-> ms,
    priceAction   |-> pa,
    levelStrength |-> ls,
    h4Trend       |-> tr,
    rsi           |-> FInt(50),
    histogram     |-> FInt(1),
    histogramPrev |-> Zero,
    h4ADX         |-> [adx |-> adx],
    liquidity     |-> [hasNearbyZone |-> TRUE]] :
     flow \in OrderFlows, ms \in ReasonedShifts, pa \in PriceActions,
     ls \in LevelStrengths, tr \in Trends, adx \in {FInt(18), FInt(30)}}

InitReason ==
  /\ pc = "start"
  /\ candles = <<>>
  /\ period = 0
  /\ lookback = 0
  /\ call = "none"
  /\ result = <<>>
  /\ analyzed \in Reasoned
  /\ SRIdle /\ BatchIdle /\ clock = 0

\* performEnhancedAnalysis from its composite score on, the reasoning included
explainEntry ==
  Return("reasoning",
         WithReasoning(TradingSignal(analyzed),
                       generateReasoning(analyzed.orderFlow, analyzed.momentumShift,
                                         analyzed.priceAction, analyzed.levelStrength,
                                         analyzed.h4Trend, analyzed.h4ADX)))

NextReason == explainEntry

SpecReason == InitReason /\ [][NextReason]_vars

(***************************************************************************)
(* The reasoning list.                                                     *)
(***************************************************************************)

\* the place of a category in the fixed order
Rank(category) ==
  CASE category = "orderFlow"    -> 1
    [] category = "divergence"   -> 2
    [] category = "priceAction"  -> 3
    [] category = "level"        -> 4
    [] category = "run"          -> 5
    [] category = "trend"        -> 6
    [] category = "acceleration" -> 7
    [] category = "none"         -> 8

Explains(reasoning, category) == \E i \in 1..Len(reasoning) : reasoning[i].category = category

\* a category triggered: its condition on the reports holds
Triggered(a) ==
  \/ a.orderFlow.signal \in {"strong_buy", "strong_sell"}
  \/ a.momentumShift.divergence \in {"bullish", "bearish"}
  \/ a.priceAction.signal \in {"bullish_reversal", "bearish_reversal"}
  \/ a.levelStrength.atLevel \/ a.levelStrength.nearLevel
  \/ a.priceAction.consecutiveBullish >= 3 \/ a.priceAction.consecutiveBearish >= 3
  \/ (a.h4Trend.structure \in {"uptrend", "downtrend"} /\ FGt(a.h4ADX.adx, FInt(20)))
  \/ a.momentumShift.accelerating

\* the list is not empty, holds a category once at most, in the fixed order, and the
\* "no clear setup" entry exactly when no category triggered, and then alone
WellFormedReasoning(reasoning, a) ==
  /\ Len(reasoning) >= 1
  /\ \A i, j \in 1..Len(reasoning) :
       i < j => Rank(reasoning[i].category) < Rank(reasoning[j].category)
  /\ Explains(reasoning, "none") <=> ~Triggered(a)
  /\ Explains(reasoning, "none") => Len(reasoning) = 1

\* C12 as stated: the list is well formed, and every signal that changed the entry
\* score through one of the categories (order flow, divergence, price action, level,
\* trend) has its entry in the list.
C12_EveryScoringSignalExplained ==
  Returned("reasoning") =>
    /\ WellFormedReasoning(result.reasoning, analyzed)
    /\ analyzed.orderFlow.bias # "neutral" => Explains(result.reasoning, "orderFlow")
    /\ analyzed.momentumShift.divergence # "none" => Explains(result.reasoning, "divergence")
    /\ analyzed.priceAction.signal # "none" => Explains(result.reasoning, "priceAction")
    /\ analyzed.levelStrength.signal \in {"potential_bounce", "potential_rejection"}
         => Explains(result.reasoning, "level")
    /\ analyzed.h4Trend.structure # "ranging" => Explains(result.reasoning, "trend")

\* C12 amended: the list is well formed; a divergence, a reversal and a level signal
\* that changed the score have their entries; an order-flow bias has one when the
\* order-flow signal is strong, and a trend has one when the ADX is above 20.
C12_ScoringSignalsExplainedWhenStrong ==
  Returned("reasoning") =>
    /\ WellFormedReasoning(result.reasoning, analyzed)
    /\ analyzed.momentumShift.divergence # "none" => Explains(result.reasoning, "divergence")
    /\ analyzed.priceAction.signal # "none" => Explains(result.reasoning, "priceAction")
    /\ analyzed.levelStrength.signal \in {"potential_bounce", "potential_rejection"}
         => Explains(result.reasoning, "level")
    /\ Explains(result.reasoning, "orderFlow")
         <=> analyzed.orderFlow.signal \in {"strong_buy", "strong_sell"}
    /\ analyzed.orderFlow.signal \in {"strong_buy", "strong_sell"}
         => analyzed.orderFlow.bias # "neutral"
    /\ Explains(result.reasoning, "trend")
         <=> (analyzed.h4Trend.structure # "ranging" /\ FGt(analyzed.h4ADX.adx, FInt(20)))

\* C12 witness: all seven categories at once, and a bias that moved the score
C12_Witness ==
  Returned("reasoning") /\ Len(result.reasoning) = 7
    /\ analyzed.orderFlow.bias = "bullish" /\ result.entryScore # 50

(***************************************************************************)
(* identifySupportResistance on swing lists that make many clusters: the   *)
(* swings touch NumLevelPrices prices around the current price 10, each    *)
(* price not at all, once or twice; two touches of a price merge into one  *)
(* cluster, whose centroid lies between them.                              *)
(***************************************************************************)

NumLevelPrices == 6

\* the prices 10, 8, 12, 6, 14, 4, ...: farther from 10 as i grows, on either side
LevelPrice(i) == FInt(10 + (IF i % 2 = 1 THEN i - 1 ELSE -i))

\* the price of touch k of price i: the first touch is at the price, a second one a
\* quarter farther from 10, but at 10 itself
TouchPrice(i, k) ==
  IF k = 1 \/ i = 1 THEN LevelPrice(i)
  ELSE IF i % 2 = 1 THEN FAdd(LevelPrice(i), FDec(1, 4)) ELSE FSub(LevelPrice(i), FDec(1, 4))

\* the swing list that touches price i touches[i] times, the prices in turn
RECURSIVE TouchingSwings(_, _, _)
TouchingSwings(list, touches, i) ==
  IF i > NumLevelPrices THEN list
  ELSE TouchingSwings(list \o [k \in 1..touches[i] |-> Swing("high", Len(list) + k - 1,
                                                            TouchPrice(i, k))],
                      touches, i + 1)

InitLevels ==
  /\ pc = "ready"
  /\ swings \in {TouchingSwings(<<>>, touches, 1) : touches \in [1..NumLevelPrices -> 0..2]}
  /\ currentPrice = FInt(10)
  /\ atr = FInt(1)
  /\ clusters = <<>>
  /\ returns = <<>>
  /\ LibIdle /\ BatchIdle /\ clock = 0

SpecLevels == InitLevels /\ [][NextSR]_vars

\* the clusters of a call that had two touches or more, and those with a level returned
StrongClusters(r) == {c \in ClusterSet(r) : c.touches >= 2}

Returns(r, c) ==
  \E i \in 1..Len(r.levels) : r.levels[i].price = c.price /\ r.levels[i].strength = c.touches

\* C13: a call returns five levels at most, each of a cluster with two touches or more,
\* of type resistance when its centroid is above the current price and support
\* otherwise, in ascending order of distance from the current price, and no cluster
\* with two touches or more that it leaves out is closer than one it returns.
C13_NearestStrongLevels ==
  \A k \in 1..Len(returns) :
    /\ Len(returns[k].levels) <= 5
    /\ \A i \in 1..Len(returns[k].levels) :
         /\ returns[k].levels[i].strength >= 2
         /\ \E c \in StrongClusters(returns[k]) :
              /\ returns[k].levels[i].price = c.price
              /\ returns[k].levels[i].strength = c.touches
              /\ returns[k].levels[i].distance = FAbs(FSub(currentPrice, c.price))
         /\ returns[k].levels[i].type = "resistance"
              <=> FGt(returns[k].levels[i].price, currentPrice)
         /\ returns[k].levels[i].type = "support"
              <=> ~FGt(returns[k].levels[i].price, currentPrice)
    /\ \A i, j \in 1..Len(returns[k].levels) :
         i < j => FLe(returns[k].levels[i].distance, returns[k].levels[j].distance)
    /\ \A c \in StrongClusters(returns[k]) :
         ~Returns(returns[k], c) =>
           \A i \in 1..Len(returns[k].levels) :
             ~FLt(FAbs(FSub(currentPrice, c.price)), returns[k].levels[i].distance)

\* C13 witness: six clusters with two touches, met from the farthest to the nearest:
\* five levels come back, nearest first, of both types, and the farthest is left out
C13_Witness ==
  \E k \in 1..Len(returns) :
    /\ returns[k].order = "reversed"
    /\ Cardinality(StrongClusters(returns[k])) = 6
    /\ Len(returns[k].levels) = 5
    /\ returns[k].levels[1].price = currentPrice /\ returns[k].levels[1].type = "support"
    /\ \E i \in 1..5 : returns[k].levels[i].type = "resistance"
    /\ \E c \in StrongClusters(returns[k]) : ~Returns(returns[k], c)

(***************************************************************************)
(* performEnhancedAnalysis on series whose closes swing between 20 and 26, *)
(* the wicks of the falling candles and of the rising ones being so many   *)
(* eighths.                                                                *)
(***************************************************************************)

MaxWick == 8

\* the series with wicks of down eighths on its falling candles, of up eighths on the
\* others
WickedCandle(o, c, wick) == Candle(o, FAdd(FMax(o, c), wick), FSub(FMin(o, c), wick), c)

WickedSeries(down, up) ==
  [i \in 1..PureLen |->
     WickedCandle(PureClose("zigzag", i - 1), PureClose("zigzag", i),
                  IF FLt(PureClose("zigzag", i), PureClose("zigzag", i - 1))
                  THEN FDec(down, 8) ELSE FDec(up, 8))]

InitSignal ==
  /\ pc = "start"
  /\ candles \in {WickedSeries(down, up) : down \in 1..MaxWick, up \in 1..MaxWick}
  /\ period = 0
  /\ lookback = 0
  /\ call = "none"
  /\ result = <<>>
  /\ analyzed = "none"
  /\ SRIdle /\ BatchIdle /\ clock = 0

\* one call of performEnhancedAnalysis
callAnalysis == Return("analysis", performEnhancedAnalysis(candles, ConfigPairs[1], clock))

NextSignal == callAnalysis

SpecSignal == InitSignal /\ [][NextSignal]_vars

\* C14: the confidence of every trading signal lies between 0 and 100 percent, the
\* entry score between 0 and 100.
C14_ConfidenceWithinPercent ==
  Returned("analysis") =>
    /\ FLe(Zero, result.tradingSignal.confidence)
    /\ FLe(result.tradingSignal.confidence, FInt(100))
    /\ 0 <= result.tradingSignal.entryScore /\ result.tradingSignal.entryScore <= 100

(***************************************************************************)
(* The labels of one trading signal.                                       *)
(***************************************************************************)

LevelSignals == {"potential_bounce", "potential_rejection"}

\* C15: BUY comes with BULLISH and SELL with BEARISH, WEAK exactly with NEUTRAL, STRONG
\* never with WAIT; a level that is reached is also near, so the entry type is IMMEDIATE
\* exactly when the level signal is potential_bounce or potential_rejection, and the
\* penalty for no nearby level never meets the contribution of a level signal.
C15_ConsistentLabels ==
  Returned("tradingSignal") =>
    /\ result.recommendation = "BUY" => result.bias = "BULLISH"
    /\ result.recommendation = "SELL" => result.bias = "BEARISH"
    /\ result.strength = "WEAK" <=> result.bias = "NEUTRAL"
    /\ result.strength = "STRONG" => result.recommendation # "WAIT"
    /\ analyzed.levelStrength.atLevel => analyzed.levelStrength.nearLevel
    /\ result.entryType = "IMMEDIATE" <=> analyzed.levelStrength.signal \in LevelSignals
    /\ ~( /\ analyzed.levelStrength.signal \in LevelSignals
          /\ ~analyzed.levelStrength.nearLevel /\ ~analyzed.liquidity.hasNearbyZone )

\* C15 witness: a strong buy at a support that is reached, without a liquidity zone
C15_Witness ==
  Returned("tradingSignal") /\ result.recommendation = "BUY" /\ result.bias = "BULLISH"
    /\ result.strength = "STRONG" /\ result.entryType = "IMMEDIATE"
    /\ analyzed.levelStrength.signal = "potential_bounce"
    /\ ~analyzed.liquidity.hasNearbyZone

====
